---- MODULE Spec2Model ----
(***************************************************************************)
(* StartupLink direct-messaging view (MessagesPage, src/README.md:329-416) *)
(* as a state machine: the React state of the view, the passive effects    *)
(* that hold the auth listener and the message-feed subscription, the      *)
(* composer, and the two collaborators at their interface (authentication  *)
(* provider, realtime document store).                                     *)
(*                                                                         *)
(* Strings are sequences of UTF-16 code units, so that Array.sort's        *)
(* default comparison, join and trim are computed as JavaScript computes   *)
(* them.  "u1" is <<117, 49>>, "__" is <<95, 95>>, " " is <<32>>.          *)
(*                                                                         *)
(* Scheduling.  One event-loop task is one step.  A render is atomic with  *)
(* the state update that causes it, so chatId (the useMemo value) is a     *)
(* function of user and peerId.  useEffect bodies and cleanups are passive *)
(* effects: they run after the commit, all cleanups before all bodies, and *)
(* always before the next render.  For a render caused by a discrete input *)
(* event (typing into the peer field) React runs them before the event     *)
(* returns; for any other render (auth callback, mount, unmount) they run  *)
(* in a later task, and store callbacks may run in between.                *)
(***************************************************************************)
EXTENDS Integers, Sequences, FiniteSets, TLC

VARIABLES
    authUser,     \* auth.currentUser at the provider: null or a uid
    authSubs,     \* number of onAuthStateChanged listeners the view holds
    mounted,      \* a MessagesPage instance is rendered
    user,         \* useState user   (null or the uid of the User)
    peerId,       \* useState peerId
    text,         \* useState text
    messages,     \* useState messages (the rendered list)
    effRan,       \* the passive effects of the instance are mounted
    effDeps,      \* chatId the [chatId] effect last ran with
    effUnsub,     \* handles closed over by that effect's cleanup ({} or {h})
    phase,        \* position inside a running passive-effect flush
    subs,         \* live onSnapshot registrations at the store
    store,        \* the "messages" collection, in creation order
    adds,         \* addDoc promises still pending, in call order
    clock,        \* the last reading of Date.now() on this client
    ev,           \* the handler or callback that ran last
    inSelf,       \* resolve harness: the user argument
    inPeer,       \* resolve harness: the peerId argument
    outId,        \* resolve harness: chatId for (inSelf, inPeer)
    outSwap,      \* resolve harness: chatId for the two identities swapped
    inSelf2,      \* resolve harness: the user argument of a second pair
    inPeer2,      \* resolve harness: the peerId argument of a second pair
    outId2,       \* resolve harness: chatId for (inSelf2, inPeer2)
    pages,        \* Navbar and ProfilePage: mounted, effects, listener, user
    clients,      \* two browsers showing MessagesPage against one store
    cart,         \* Sorin script: let cart
    storage,      \* Sorin script: localStorage item "sorinCart" (null or JSON)
    counter,      \* Sorin script: the .cart-count element
    docState      \* Sorin page: how far the document has loaded

viewVars == <<authUser, authSubs, mounted, user, peerId, text, messages, effRan,
              effDeps, effUnsub, phase, subs, store, adds, clock, ev>>
pureVars == <<inSelf, inPeer, outId, outSwap>>
injVars == <<inSelf2, inPeer2, outId2>>
shellVars == <<pages>>
pairVars == <<clients>>
cartVars == <<cart, storage, counter, docState>>
otherVars == <<pureVars, injVars, shellVars, pairVars, cartVars>>
vars == <<viewVars, otherVars>>

----------------------------------------------------------------------------
(* Bounds *)

MaxDocs == 2         \* documents written: committed or still in flight
MaxClock == 1        \* largest reading of Date.now()
MaxIdLen == 2        \* length of the identities the resolve harness draws
MaxQty == 2          \* largest quantity of one cart entry

----------------------------------------------------------------------------
(* JavaScript values *)

undefined == <<-1>>  \* not a string: no code unit is negative
null == <<-2>>
unset == <<-3>>      \* a harness output not computed yet

U1 == <<117, 49>>    \* "u1"
U2 == <<117, 50>>    \* "u2"
U3 == <<117, 51>>    \* "u3"
Hi == <<104, 105>>   \* "hi"
Sp == <<32>>         \* " "

\* String.prototype comparison used by Array.prototype.sort() without a
\* comparator: code unit by code unit, a proper prefix first.
RECURSIVE StrLt(_, _)
StrLt(a, b) ==
    IF Len(b) = 0 THEN FALSE
    ELSE IF Len(a) = 0 THEN TRUE
    ELSE IF Head(a) < Head(b) THEN TRUE
    ELSE IF Head(a) > Head(b) THEN FALSE
    ELSE StrLt(Tail(a), Tail(b))

\* [a, b].sort()
SortPairUnsorted(a, b) == <<a, b>>
SortPair(a, b) == IF StrLt(b, a) THEN <<b, a>> ELSE <<a, b>>

\* pair.join("__")
Separator == <<95, 95>>
JoinSingle(pair) == pair[1] \o <<95>> \o pair[2]
Join(pair) == pair[1] \o Separator \o pair[2]

\* String.prototype.trim(): white space and line terminators are stripped
\* from both ends.
IsSpace(c) == c \in {9, 10, 11, 12, 13, 32}

RECURSIVE TrimStart(_)
TrimStart(s) ==
    IF Len(s) > 0 /\ IsSpace(Head(s)) THEN TrimStart(Tail(s)) ELSE s

RECURSIVE TrimEnd(_)
TrimEnd(s) ==
    IF Len(s) > 0 /\ IsSpace(s[Len(s)]) THEN TrimEnd(SubSeq(s, 1, Len(s) - 1))
    ELSE s

Trim(s) == TrimEnd(TrimStart(s))

\* !x for a string or an object reference
Falsy(x) == x = null \/ x = undefined \/ x = <<>>

----------------------------------------------------------------------------
(* Identity Resolver: the chatId memo *)

\* u is the User object (its uid) or null, p the peerId string
resolveUserOnly(u, p) ==
    IF u = null THEN undefined
    ELSE Join(SortPair(u, p))

resolve(u, p) ==
    IF u = null \/ Falsy(p) THEN undefined
    ELSE Join(SortPair(u, p))

chatId == resolve(user, peerId)

----------------------------------------------------------------------------
(* Realtime document store: the "messages" collection *)

Uids == {U2}                      \* identities the provider signs in here
PeerChoices == {<<>>, U1, U3}     \* what is typed into "Receiver user ID"
TextChoices == {<<>>, Sp, Sp \o Hi}

MessageDoc(c, s, r, m, t) ==
    [chatId |-> c, senderId |-> s, receiverId |-> r, message |-> m, timestamp |-> t]

\* documents written by the client of peer u1 (its clock is its own)
ExternalDocs == {MessageDoc(resolve(U1, U2), U1, U2, Hi, 0)}

\* { id: d.id, ...d.data() }; the document id is the creation index
UIMessage(i) ==
    [id |-> i, chatId |-> store[i].chatId, senderId |-> store[i].senderId,
     receiverId |-> store[i].receiverId, message |-> store[i].message,
     timestamp |-> store[i].timestamp]

\* orderBy("timestamp", "asc"): insertion of x into an ordered sequence,
\* equal timestamps by document id
InsertAtEnd(x, sorted) == sorted \o <<x>>

RECURSIVE Insert(_, _)
Insert(x, sorted) ==
    IF sorted = <<>> THEN <<x>>
    ELSE IF x.timestamp < Head(sorted).timestamp
            \/ (x.timestamp = Head(sorted).timestamp /\ x.id < Head(sorted).id)
         THEN <<x>> \o sorted
         ELSE <<Head(sorted)>> \o Insert(x, Tail(sorted))

\* query(collection, where("chatId", "==", q), orderBy("timestamp", "asc"))
\* evaluated on the first n documents
RECURSIVE QueryUpTo(_, _)
QueryUpTo(q, n) ==
    IF n = 0 THEN <<>>
    ELSE IF store[n].chatId = q THEN Insert(UIMessage(n), QueryUpTo(q, n - 1))
    ELSE QueryUpTo(q, n - 1)

Query(q) == QueryUpTo(q, Len(store))

\* onSnapshot(q, cb): a registration with a fresh handle; the store owes it
\* a first snapshot
NewHandle(S) ==
    CHOOSE h \in 1..(Cardinality(S) + 1) : \A s \in S : s.id # h

Subscribe(S, q) ==
    S \cup {[id |-> NewHandle(S), q |-> q, dirty |-> TRUE, failed |-> FALSE]}

\* unsub(): the registrations behind the handles are removed
UnsubscribeNothing(S, handles) == S
Unsubscribe(S, handles) == {s \in S : s.id \notin handles}

\* a committed write makes the store owe a snapshot to every matching query
Notify(S, doc) ==
    {[s EXCEPT !.dirty = s.dirty \/ s.q = doc.chatId] : s \in S}

----------------------------------------------------------------------------
(* What each specification leaves untouched: the other pages, the second  *)
(* browser, the Sorin page and the second resolve pair before they exist   *)

Shells == {"navbar", "profile"}

ShellsIdle ==
    pages = [v \in Shells |-> [mounted |-> FALSE, effRan |-> FALSE,
                               listeners |-> 0, user |-> null]]

PairIdle == clients = <<>>

\* .cart-count as the page's markup has it, before the script writes to it
Markup == [written |-> FALSE, text |-> 0, shown |-> FALSE]

CartIdle ==
    /\ cart = <<>>
    /\ storage = null
    /\ counter = Markup
    /\ docState = "closed"

InjIdle ==
    /\ inSelf2 = null
    /\ inPeer2 = <<>>
    /\ outId2 = unset

ViewIdle ==
    /\ authSubs = 0
    /\ mounted = FALSE
    /\ user = null
    /\ peerId = <<>>
    /\ text = <<>>
    /\ messages = <<>>
    /\ effRan = FALSE
    /\ effDeps = undefined
    /\ effUnsub = {}
    /\ phase = "idle"
    /\ subs = {}
    /\ store = <<>>
    /\ adds = <<>>
    /\ clock = 0
    /\ ev = "init"

PureIdle ==
    /\ inSelf = null
    /\ inPeer = <<>>
    /\ outId = unset
    /\ outSwap = unset

----------------------------------------------------------------------------
(* The view *)

Init ==
    /\ authUser \in {null} \cup Uids
    /\ authSubs = 0
    /\ mounted = FALSE
    /\ user = null
    /\ peerId = <<>>
    /\ text = <<>>
    /\ messages = <<>>
    /\ effRan = FALSE
    /\ effDeps = undefined
    /\ effUnsub = {}
    /\ phase = "idle"
    /\ subs = {}
    /\ store = <<>>
    /\ adds = <<>>
    /\ clock = 0
    /\ ev = "init"
    /\ inSelf = null
    /\ inPeer = <<>>
    /\ outId = unset
    /\ outSwap = unset
    /\ InjIdle
    /\ ShellsIdle
    /\ PairIdle
    /\ CartIdle

\* Passive effects the last commit left to run: the mount effects, the
\* [chatId] effect after a render that changed chatId, the cleanups of an
\* unmounted instance.
EffectsPendingMountOnly ==
    \/ mounted /\ ~effRan
    \/ ~mounted /\ effRan

EffectsPending ==
    \/ mounted /\ (~effRan \/ effDeps # chatId)
    \/ ~mounted /\ effRan

\* React flushes pending passive effects before it renders again
CanRender == phase = "idle" /\ ~EffectsPending

\* MessagesPage(): the four useState initialisers
Mount ==
    /\ ~mounted
    /\ CanRender
    /\ mounted' = TRUE
    /\ user' = authUser
    /\ peerId' = <<>>
    /\ text' = <<>>
    /\ messages' = <<>>
    /\ ev' = "mount"
    /\ UNCHANGED <<authUser, authSubs, effRan, effDeps, effUnsub, phase, subs,
                   store, adds, clock>>
    /\ UNCHANGED otherVars

\* navigation away: the instance is discarded, its cleanups are left to run
Unmount ==
    /\ mounted
    /\ CanRender
    /\ mounted' = FALSE
    /\ adds' = [i \in 1..Len(adds) |-> [adds[i] EXCEPT !.orphan = TRUE]]
    /\ ev' = "unmount"
    /\ UNCHANGED <<authUser, authSubs, user, peerId, text, messages, effRan,
                   effDeps, effUnsub, phase, subs, store, clock>>
    /\ UNCHANGED otherVars

\* Cleanups of the flush.  After a render that changed chatId: the cleanup
\* of the previous [chatId] effect, () => unsub().  After unmount: that
\* cleanup and the auth listener's.  At mount there is nothing to clean.
\* A deferred flush starts here on its own; a flush that a discrete input
\* event forced (phase "commit") runs before anything else does.
EffectCleanup ==
    /\ \/ phase = "idle" /\ EffectsPending
       \/ phase = "commit"
    /\ subs' = IF effRan THEN Unsubscribe(subs, effUnsub) ELSE subs
    /\ effUnsub' = {}
    /\ authSubs' = IF effRan /\ ~mounted THEN authSubs - 1 ELSE authSubs
    /\ effRan' = (effRan /\ mounted)
    /\ phase' = IF mounted THEN "setup" ELSE "idle"
    /\ ev' = "cleanup"
    /\ UNCHANGED <<authUser, mounted, user, peerId, text, messages, effDeps,
                   store, adds, clock>>
    /\ UNCHANGED otherVars

\* Effect bodies of the flush, in source order: at mount the auth listener
\* is registered; the [chatId] effect returns early without a chatId and
\* otherwise registers the query's listener and keeps its unsub.
EffectSetupNoEarlyReturn ==
    /\ phase = "setup"
    /\ authSubs' = IF effRan THEN authSubs ELSE authSubs + 1
    /\ subs' = Subscribe(subs, chatId)
    /\ effUnsub' = {NewHandle(subs)}
    /\ effDeps' = chatId
    /\ effRan' = TRUE
    /\ phase' = "idle"
    /\ ev' = "effect"
    /\ UNCHANGED <<authUser, mounted, user, peerId, text, messages, store,
                   adds, clock>>
    /\ UNCHANGED otherVars

EffectSetup ==
    /\ phase = "setup"
    /\ authSubs' = IF effRan THEN authSubs ELSE authSubs + 1
    /\ IF chatId = undefined
       THEN /\ subs' = subs
            /\ effUnsub' = {}
       ELSE /\ subs' = Subscribe(subs, chatId)
            /\ effUnsub' = {NewHandle(subs)}
    /\ effDeps' = chatId
    /\ effRan' = TRUE
    /\ phase' = "idle"
    /\ ev' = "effect"
    /\ UNCHANGED <<authUser, mounted, user, peerId, text, messages, store,
                   adds, clock>>
    /\ UNCHANGED otherVars

\* sign-in or sign-out at the provider (Navbar, login page, another tab)
SignIn(u) ==
    /\ phase = "idle"
    /\ authUser # u
    /\ authUser' = u
    /\ ev' = "signIn"
    /\ UNCHANGED <<authSubs, mounted, user, peerId, text, messages, effRan,
                   effDeps, effUnsub, phase, subs, store, adds, clock>>
    /\ UNCHANGED otherVars

SignOut ==
    /\ phase = "idle"
    /\ authUser # null
    /\ authUser' = null
    /\ ev' = "signOut"
    /\ UNCHANGED <<authSubs, mounted, user, peerId, text, messages, effRan,
                   effDeps, effUnsub, phase, subs, store, adds, clock>>
    /\ UNCHANGED otherVars

\* onAuthStateChanged(auth, setUser): the listener is told the current user;
\* the render it causes leaves its effects to a later flush
AuthStateChanged ==
    /\ mounted
    /\ CanRender
    /\ authSubs > 0
    /\ user # authUser
    /\ user' = authUser
    /\ ev' = "authStateChanged"
    /\ UNCHANGED <<authUser, authSubs, mounted, peerId, text, messages, effRan,
                   effDeps, effUnsub, phase, subs, store, adds, clock>>
    /\ UNCHANGED otherVars

PeerEditClearsList(p) ==
    /\ mounted
    /\ CanRender
    /\ p # peerId
    /\ peerId' = p
    /\ messages' = <<>>
    /\ UNCHANGED <<authUser, authSubs, mounted, user, text, effRan,
                   effDeps, effUnsub, subs, store, adds, clock>>
    /\ phase' = IF EffectsPending' THEN "commit" ELSE "idle"
    /\ ev' = "peerEdit"
    /\ UNCHANGED otherVars

\* onChange={(e) => setPeerId(e.target.value)}: a discrete input event, so
\* the commit flushes the effects of its render before it returns
PeerEdit(p) ==
    /\ mounted
    /\ CanRender
    /\ p # peerId
    /\ peerId' = p
    /\ UNCHANGED <<authUser, authSubs, mounted, user, text, messages, effRan,
                   effDeps, effUnsub, subs, store, adds, clock>>
    /\ phase' = IF EffectsPending' THEN "commit" ELSE "idle"
    /\ ev' = "peerEdit"
    /\ UNCHANGED otherVars

\* onChange={(e) => setText(e.target.value)} on an input with disabled={!user}
TextEdit(t) ==
    /\ mounted
    /\ phase = "idle"
    /\ user # null
    /\ t # text
    /\ text' = t
    /\ ev' = "textEdit"
    /\ UNCHANGED <<authUser, authSubs, mounted, user, peerId, messages, effRan,
                   effDeps, effUnsub, phase, subs, store, adds, clock>>
    /\ UNCHANGED otherVars

\* if (!user || !chatId || !text.trim()) return;
SendRejectedInFlight ==
    user = null \/ Falsy(chatId) \/ Falsy(Trim(text)) \/ adds # <<>>
SendRejectedNoTrim == user = null \/ Falsy(chatId) \/ Falsy(text)
SendRejectedNoChatId == user = null \/ Falsy(Trim(text))
SendRejectedTextOnly == Falsy(Trim(text))
SendRejected == user = null \/ Falsy(chatId) \/ Falsy(Trim(text))

\* the record handed to addDoc, built from the closure of the last render;
\* now is Date.now()
NewDocStaleId(now) == MessageDoc(effDeps, user, peerId, Trim(text), now)
NewDocUntrimmed(now) == MessageDoc(chatId, user, peerId, text, now)
NewDoc(now) == MessageDoc(chatId, user, peerId, Trim(text), now)

\* sendMessage() up to its await: the guard, then the addDoc call.  The
\* time that passed since the clock was last read passes here.  The
\* function is callable in every state of a mounted view: the guard on its
\* first line, not the disabled attributes of the input and the button, is
\* what decides whether a call has an effect.
SendMessage ==
    /\ mounted
    /\ phase = "idle"
    /\ ev' = "sendMessage"
    /\ IF SendRejected
       THEN UNCHANGED <<adds, clock>>
       ELSE /\ Len(adds) + Len(store) < MaxDocs
            /\ \E now \in clock..MaxClock :
                   /\ clock' = now
                   /\ adds' = Append(adds, [doc |-> NewDoc(now), orphan |-> FALSE])
    /\ UNCHANGED <<authUser, authSubs, mounted, user, peerId, text, messages,
                   effRan, effDeps, effUnsub, phase, subs, store>>
    /\ UNCHANGED otherVars

\* the oldest pending write commits; sendMessage resumes after its await
\* with setText(""), which an unmounted instance ignores
AddDocResolvedKeepsText ==
    /\ phase = "idle"
    /\ adds # <<>>
    /\ store' = Append(store, Head(adds).doc)
    /\ subs' = Notify(subs, Head(adds).doc)
    /\ adds' = Tail(adds)
    /\ ev' = "addDocResolved"
    /\ UNCHANGED <<authUser, authSubs, mounted, user, peerId, text, messages,
                   effRan, effDeps, effUnsub, phase, clock>>
    /\ UNCHANGED otherVars

AddDocResolvedOptimistic ==
    /\ phase = "idle"
    /\ adds # <<>>
    /\ store' = Append(store, Head(adds).doc)
    /\ subs' = Notify(subs, Head(adds).doc)
    /\ adds' = Tail(adds)
    /\ text' = IF Head(adds).orphan THEN text ELSE <<>>
    /\ messages' = IF Head(adds).orphan THEN messages
                   ELSE Append(messages,
                               [id |-> Len(store) + 1,
                                chatId |-> Head(adds).doc.chatId,
                                senderId |-> Head(adds).doc.senderId,
                                receiverId |-> Head(adds).doc.receiverId,
                                message |-> Head(adds).doc.message,
                                timestamp |-> Head(adds).doc.timestamp])
    /\ ev' = "addDocResolved"
    /\ UNCHANGED <<authUser, authSubs, mounted, user, peerId, effRan,
                   effDeps, effUnsub, phase, clock>>
    /\ UNCHANGED otherVars

AddDocResolved ==
    /\ phase = "idle"
    /\ adds # <<>>
    /\ store' = Append(store, Head(adds).doc)
    /\ subs' = Notify(subs, Head(adds).doc)
    /\ adds' = Tail(adds)
    /\ text' = IF Head(adds).orphan THEN text ELSE <<>>
    /\ ev' = "addDocResolved"
    /\ UNCHANGED <<authUser, authSubs, mounted, user, peerId, messages, effRan,
                   effDeps, effUnsub, phase, clock>>
    /\ UNCHANGED otherVars

\* the oldest pending write fails: the await throws, sendMessage's promise
\* rejects and nothing after the await runs
AddDocRejectedClears ==
    /\ phase = "idle"
    /\ adds # <<>>
    /\ adds' = Tail(adds)
    /\ text' = <<>>
    /\ ev' = "addDocRejected"
    /\ UNCHANGED <<authUser, authSubs, mounted, user, peerId, messages,
                   effRan, effDeps, effUnsub, phase, subs, store, clock>>
    /\ UNCHANGED otherVars

AddDocRejectedRetries ==
    /\ phase = "idle"
    /\ adds # <<>>
    /\ adds' = Append(Tail(adds), Head(adds))
    /\ ev' = "addDocRejected"
    /\ UNCHANGED <<authUser, authSubs, mounted, user, peerId, text, messages,
                   effRan, effDeps, effUnsub, phase, subs, store, clock>>
    /\ UNCHANGED otherVars

AddDocRejected ==
    /\ phase = "idle"
    /\ adds # <<>>
    /\ adds' = Tail(adds)
    /\ ev' = "addDocRejected"
    /\ UNCHANGED <<authUser, authSubs, mounted, user, peerId, text, messages,
                   effRan, effDeps, effUnsub, phase, subs, store, clock>>
    /\ UNCHANGED otherVars

\* the peer's client writes a message
ExternalAppend(d) ==
    /\ phase = "idle"
    /\ Len(adds) + Len(store) < MaxDocs
    /\ store' = Append(store, d)
    /\ subs' = Notify(subs, d)
    /\ ev' = "externalAppend"
    /\ UNCHANGED <<authUser, authSubs, mounted, user, peerId, text, messages,
                   effRan, effDeps, effUnsub, phase, adds, clock>>
    /\ UNCHANGED otherVars

\* the onSnapshot callback of a live registration: setMessages(data) with
\* the whole current result of its query
SnapshotDeliveredNoSet(s) ==
    /\ phase = "idle"
    /\ s \in subs
    /\ s.dirty
    /\ ~s.failed
    /\ subs' = (subs \ {s}) \cup {[s EXCEPT !.dirty = FALSE]}
    /\ ev' = "snapshot"
    /\ UNCHANGED <<authUser, authSubs, mounted, user, peerId, text, messages,
                   effRan, effDeps, effUnsub, phase, store, adds, clock>>
    /\ UNCHANGED otherVars

SnapshotDeliveredMerge(s) ==
    /\ phase = "idle"
    /\ s \in subs
    /\ s.dirty
    /\ ~s.failed
    /\ subs' = (subs \ {s}) \cup {[s EXCEPT !.dirty = FALSE]}
    /\ messages' = IF mounted THEN messages \o Query(s.q) ELSE messages
    /\ ev' = "snapshot"
    /\ UNCHANGED <<authUser, authSubs, mounted, user, peerId, text, effRan,
                   effDeps, effUnsub, phase, store, adds, clock>>
    /\ UNCHANGED otherVars

SnapshotDeliveredAfterFailure(s) ==
    /\ phase = "idle"
    /\ s \in subs
    /\ s.dirty
    /\ subs' = (subs \ {s}) \cup {[s EXCEPT !.dirty = FALSE]}
    /\ messages' = IF mounted THEN Query(s.q) ELSE messages
    /\ ev' = "snapshot"
    /\ UNCHANGED <<authUser, authSubs, mounted, user, peerId, text, effRan,
                   effDeps, effUnsub, phase, store, adds, clock>>
    /\ UNCHANGED otherVars

SnapshotDelivered(s) ==
    /\ phase = "idle"
    /\ s \in subs
    /\ s.dirty
    /\ ~s.failed
    /\ subs' = (subs \ {s}) \cup {[s EXCEPT !.dirty = FALSE]}
    /\ messages' = IF mounted THEN Query(s.q) ELSE messages
    /\ ev' = "snapshot"
    /\ UNCHANGED <<authUser, authSubs, mounted, user, peerId, text, effRan,
                   effDeps, effUnsub, phase, store, adds, clock>>
    /\ UNCHANGED otherVars

\* the listen fails at the store: no error callback was passed, so the
\* registration just stops delivering
QueryFailed(s) ==
    /\ phase = "idle"
    /\ s \in subs
    /\ ~s.failed
    /\ subs' = (subs \ {s}) \cup {[s EXCEPT !.failed = TRUE]}
    /\ ev' = "queryFailed"
    /\ UNCHANGED <<authUser, authSubs, mounted, user, peerId, text, messages,
                   effRan, effDeps, effUnsub, phase, store, adds, clock>>
    /\ UNCHANGED otherVars

Next ==
    \/ Mount
    \/ Unmount
    \/ EffectCleanup
    \/ EffectSetup
    \/ \E u \in Uids : SignIn(u)
    \/ SignOut
    \/ AuthStateChanged
    \/ \E p \in PeerChoices : PeerEdit(p)
    \/ \E t \in TextChoices : TextEdit(t)
    \/ SendMessage
    \/ AddDocResolved
    \/ AddDocRejected
    \/ \E d \in ExternalDocs : ExternalAppend(d)
    \/ \E s \in subs : SnapshotDelivered(s)
    \/ \E s \in subs : QueryFailed(s)

Spec == Init /\ [][Next]_vars

\* React runs the passive effects a commit left pending, and the store
\* delivers: a snapshot it owes to a live registration is not withheld for
\* ever.  Nothing is assumed of the user, the provider or the peer.
FairSpec ==
    /\ Spec
    /\ WF_vars(EffectCleanup)
    /\ WF_vars(EffectSetup)
    /\ WF_vars(\E s \in subs : SnapshotDelivered(s))

----------------------------------------------------------------------------
(* The auth listeners of the three views: MessagesPage as above, Navbar    *)
(* and ProfilePage beside it.  Each has useState(auth.currentUser) and one *)
(* useEffect with an empty dependency array.                               *)

viewFrame == <<authUser, authSubs, mounted, user, peerId, text, messages,
               effRan, effDeps, effUnsub, phase, subs, store, adds, clock>>

\* Navbar() / ProfilePage(): useState<User | null>(auth.currentUser)
PageMount(v) ==
    /\ phase = "idle"
    /\ ~pages[v].mounted
    /\ ~pages[v].effRan
    /\ pages' = [pages EXCEPT ![v].mounted = TRUE, ![v].user = authUser]
    /\ ev' = "pageMount"
    /\ UNCHANGED <<viewFrame, pureVars, injVars, pairVars, cartVars>>

\* the effect body: const unsub = onAuthStateChanged(auth, setUser)
PageEffectSetup(v) ==
    /\ phase = "idle"
    /\ pages[v].mounted
    /\ ~pages[v].effRan
    /\ pages' = [pages EXCEPT ![v].effRan = TRUE,
                              ![v].listeners = pages[v].listeners + 1]
    /\ ev' = "pageEffect"
    /\ UNCHANGED <<viewFrame, pureVars, injVars, pairVars, cartVars>>

\* the page is navigated away from; its cleanup is left to run
PageUnmount(v) ==
    /\ phase = "idle"
    /\ pages[v].mounted
    /\ pages[v].effRan
    /\ pages' = [pages EXCEPT ![v].mounted = FALSE]
    /\ ev' = "pageUnmount"
    /\ UNCHANGED <<viewFrame, pureVars, injVars, pairVars, cartVars>>

PageEffectCleanupLeaks(v) ==
    /\ phase = "idle"
    /\ ~pages[v].mounted
    /\ pages[v].effRan
    /\ pages' = [pages EXCEPT ![v].effRan = FALSE]
    /\ ev' = "pageCleanup"
    /\ UNCHANGED <<viewFrame, pureVars, injVars, pairVars, cartVars>>

\* the effect cleanup: return () => unsub()
PageEffectCleanup(v) ==
    /\ phase = "idle"
    /\ ~pages[v].mounted
    /\ pages[v].effRan
    /\ pages' = [pages EXCEPT ![v].effRan = FALSE,
                              ![v].listeners = pages[v].listeners - 1]
    /\ ev' = "pageCleanup"
    /\ UNCHANGED <<viewFrame, pureVars, injVars, pairVars, cartVars>>

\* the listener's callback: setUser(firebaseUser); the render it causes
\* does not run the effect again (dependency array [])
PageAuthChanged(v) ==
    /\ phase = "idle"
    /\ pages[v].mounted
    /\ pages[v].effRan
    /\ pages[v].listeners > 0
    /\ pages[v].user # authUser
    /\ pages' = [pages EXCEPT ![v].user = authUser]
    /\ ev' = "pageAuthStateChanged"
    /\ UNCHANGED <<viewFrame, pureVars, injVars, pairVars, cartVars>>

NextAuth ==
    \/ Mount
    \/ Unmount
    \/ EffectCleanup
    \/ EffectSetup
    \/ \E u \in Uids : SignIn(u)
    \/ SignOut
    \/ AuthStateChanged
    \/ \E p \in PeerChoices : PeerEdit(p)
    \/ \E t \in TextChoices : TextEdit(t)
    \/ \E v \in Shells : PageMount(v)
    \/ \E v \in Shells : PageEffectSetup(v)
    \/ \E v \in Shells : PageUnmount(v)
    \/ \E v \in Shells : PageEffectCleanup(v)
    \/ \E v \in Shells : PageAuthChanged(v)

SpecAuth == Init /\ [][NextAuth]_vars

----------------------------------------------------------------------------
(* Two browsers on MessagesPage against the one store: client 1 is signed  *)
(* in as u1 and has typed u2 into the peer field, client 2 is signed in as *)
(* u2 and has typed u1.  Each is the view above, written over its own      *)
(* state hooks; the store, its registrations and the pending writes are    *)
(* shared.  The two machines read their own clocks.                        *)

Clients == {1, 2}
ClientTexts == {<<>>, Sp \o Hi}      \* what is typed into the composers

ClientChatId(c) == resolve(clients[c].user, clients[c].peerId)

pairFrame == <<authUser, authSubs, mounted, user, peerId, text, messages,
               effRan, effDeps, effUnsub, phase, clock>>

InitPair ==
    /\ authUser = null
    /\ ViewIdle
    /\ PureIdle
    /\ InjIdle
    /\ ShellsIdle
    /\ CartIdle
    /\ clients = [c \in Clients |->
                    [user |-> IF c = 1 THEN U1 ELSE U2,
                     peerId |-> IF c = 1 THEN U2 ELSE U1,
                     text |-> <<>>, messages |-> <<>>,
                     effRan |-> FALSE, effUnsub |-> {}]]

\* the [chatId] effect of client c after the render that resolved chatId
ClientEffectSetup(c) ==
    /\ ~clients[c].effRan
    /\ IF ClientChatId(c) = undefined
       THEN /\ subs' = subs
            /\ clients' = [clients EXCEPT ![c].effRan = TRUE]
       ELSE /\ subs' = Subscribe(subs, ClientChatId(c))
            /\ clients' = [clients EXCEPT ![c].effRan = TRUE,
                                          ![c].effUnsub = {NewHandle(subs)}]
    /\ ev' = "effect"
    /\ UNCHANGED <<pairFrame, store, adds>>
    /\ UNCHANGED <<pureVars, injVars, shellVars, cartVars>>

\* onChange={(e) => setText(e.target.value)} in client c
ClientTextEdit(c, t) ==
    /\ clients[c].user # null
    /\ t # clients[c].text
    /\ clients' = [clients EXCEPT ![c].text = t]
    /\ ev' = "textEdit"
    /\ UNCHANGED <<pairFrame, subs, store, adds>>
    /\ UNCHANGED <<pureVars, injVars, shellVars, cartVars>>

\* if (!user || !chatId || !text.trim()) return;
ClientSendRejected(c) ==
    \/ clients[c].user = null
    \/ Falsy(ClientChatId(c))
    \/ Falsy(Trim(clients[c].text))

\* sendMessage() of client c up to its await
ClientSend(c) ==
    /\ ev' = "sendMessage"
    /\ IF ClientSendRejected(c)
       THEN adds' = adds
       ELSE /\ Len(adds) + Len(store) < MaxDocs
            /\ \E now \in 0..MaxClock :
                   adds' = Append(adds,
                       [doc |-> MessageDoc(ClientChatId(c), clients[c].user,
                                           clients[c].peerId,
                                           Trim(clients[c].text), now),
                        owner |-> c])
    /\ UNCHANGED <<pairFrame, subs, store, clients>>
    /\ UNCHANGED <<pureVars, injVars, shellVars, cartVars>>

\* the oldest pending write commits; its sender resumes with setText("")
ClientAddDocResolved ==
    /\ adds # <<>>
    /\ store' = Append(store, Head(adds).doc)
    /\ subs' = Notify(subs, Head(adds).doc)
    /\ adds' = Tail(adds)
    /\ clients' = [clients EXCEPT ![Head(adds).owner].text = <<>>]
    /\ ev' = "addDocResolved"
    /\ UNCHANGED pairFrame
    /\ UNCHANGED <<pureVars, injVars, shellVars, cartVars>>

\* the oldest pending write fails
ClientAddDocRejected ==
    /\ adds # <<>>
    /\ adds' = Tail(adds)
    /\ ev' = "addDocRejected"
    /\ UNCHANGED <<pairFrame, subs, store, clients>>
    /\ UNCHANGED <<pureVars, injVars, shellVars, cartVars>>

\* the onSnapshot callback of client c: setMessages(data)
ClientSnapshotDelivered(c) ==
    /\ \E s \in subs :
           /\ s.id \in clients[c].effUnsub
           /\ s.dirty
           /\ ~s.failed
           /\ subs' = (subs \ {s}) \cup {[s EXCEPT !.dirty = FALSE]}
           /\ clients' = [clients EXCEPT ![c].messages = Query(s.q)]
    /\ ev' = "snapshot"
    /\ UNCHANGED <<pairFrame, store, adds>>
    /\ UNCHANGED <<pureVars, injVars, shellVars, cartVars>>

NextPair ==
    \/ \E c \in Clients : ClientEffectSetup(c)
    \/ \E c \in Clients : \E t \in ClientTexts : ClientTextEdit(c, t)
    \/ \E c \in Clients : ClientSend(c)
    \/ ClientAddDocResolved
    \/ ClientAddDocRejected
    \/ \E c \in Clients : ClientSnapshotDelivered(c)

SpecPair == InitPair /\ [][NextPair]_vars

\* React runs pending effects and the store delivers snapshots it owes:
\* neither stops while one of them is due
FairSpecPair ==
    /\ SpecPair
    /\ WF_vars(\E c \in Clients : ClientEffectSetup(c))
    /\ WF_vars(\E c \in Clients : ClientSnapshotDelivered(c))

----------------------------------------------------------------------------
(* The Sorin page script (src/unnamed/part_000): the cart, its counter in  *)
(* the navigation and its copy in localStorage.  One run of the script     *)
(* lasts from a page open to the next; localStorage outlives it.  A cart   *)
(* entry is modelled by its name and quantity (id, price and image ride    *)
(* along unread).  JSON text is the sequence of its tokens.                *)

Products == {"coat", "dress", "scarf"}     \* .product-name of the product cards

\* JSON.stringify(cart)
RECURSIVE StringifyItems(_)
StringifyItems(c) ==
    IF c = <<>> THEN <<>>
    ELSE <<Head(c).name, Head(c).quantity>> \o StringifyItems(Tail(c))

Stringify(c) == <<"[">> \o StringifyItems(c) \o <<"]">>

\* JSON.parse(savedCart)
Parse(j) ==
    [i \in 1..((Len(j) - 2) \div 2) |->
        [name |-> j[2 * i], quantity |-> j[2 * i + 1]]]

\* cart.reduce((sum, item) => sum + item.quantity, 0)
RECURSIVE TotalItems(_)
TotalItems(c) ==
    IF c = <<>> THEN 0 ELSE Head(c).quantity + TotalItems(Tail(c))

\* updateCartDisplay(): textContent and style.display of .cart-count
CartDisplay(c) ==
    [written |-> TRUE, text |-> TotalItems(c), shown |-> TotalItems(c) > 0]

\* cart.find(item => item.name === name): index of the first match, 0 if none
FindByName(c, name) ==
    IF \E i \in 1..Len(c) : c[i].name = name
    THEN CHOOSE i \in 1..Len(c) :
             /\ c[i].name = name
             /\ \A k \in 1..(i - 1) : c[k].name # name
    ELSE 0

cartFrame == <<viewFrame, pureVars, injVars, shellVars, pairVars>>

InitCart ==
    /\ authUser = null
    /\ ViewIdle
    /\ PureIdle
    /\ InjIdle
    /\ ShellsIdle
    /\ PairIdle
    /\ CartIdle

\* a Sorin page is opened or reloaded: the script runs from its first line
\* (let cart = []) and registers its DOMContentLoaded and load listeners
PageOpen ==
    /\ cart' = <<>>
    /\ counter' = Markup
    /\ docState' = "loading"
    /\ ev' = "open"
    /\ UNCHANGED storage
    /\ UNCHANGED cartFrame

\* DOMContentLoaded: initializeWebsite() registers the click listener and
\* calls updateCartDisplay()
DomContentLoaded ==
    /\ docState = "loading"
    /\ docState' = "interactive"
    /\ counter' = CartDisplay(cart)
    /\ ev' = "domContentLoaded"
    /\ UNCHANGED <<cart, storage>>
    /\ UNCHANGED cartFrame

AddToCartAlwaysPushes(name) ==
    /\ docState \in {"interactive", "complete"}
    /\ Len(cart) < MaxQty * Cardinality(Products)
    /\ cart' = Append(cart, [name |-> name, quantity |-> 1])
    /\ counter' = CartDisplay(cart')
    /\ storage' = Stringify(cart')
    /\ ev' = "addToCart"
    /\ UNCHANGED docState
    /\ UNCHANGED cartFrame

AddToCartStaleCounter(name) ==
    /\ docState \in {"interactive", "complete"}
    /\ LET i == FindByName(cart, name) IN
           /\ i # 0 => cart[i].quantity < MaxQty
           /\ cart' = IF i # 0
                      THEN [cart EXCEPT ![i].quantity = cart[i].quantity + 1]
                      ELSE Append(cart, [name |-> name, quantity |-> 1])
    /\ counter' = CartDisplay(cart)
    /\ storage' = Stringify(cart')
    /\ ev' = "addToCart"
    /\ UNCHANGED docState
    /\ UNCHANGED cartFrame

\* a click on an .add-to-cart button of the card of product name:
\* addToCart(productCard)
AddToCart(name) ==
    /\ docState \in {"interactive", "complete"}
    /\ LET i == FindByName(cart, name) IN
           /\ i # 0 => cart[i].quantity < MaxQty
           /\ cart' = IF i # 0
                      THEN [cart EXCEPT ![i].quantity = cart[i].quantity + 1]
                      ELSE Append(cart, [name |-> name, quantity |-> 1])
    /\ counter' = CartDisplay(cart')
    /\ storage' = Stringify(cart')
    /\ ev' = "addToCart"
    /\ UNCHANGED docState
    /\ UNCHANGED cartFrame

\* window load: loadCartFromStorage()
WindowLoad ==
    /\ docState = "interactive"
    /\ docState' = "complete"
    /\ IF storage # null
       THEN /\ cart' = Parse(storage)
            /\ counter' = CartDisplay(cart')
       ELSE UNCHANGED <<cart, counter>>
    /\ ev' = "load"
    /\ UNCHANGED storage
    /\ UNCHANGED cartFrame

NextCart ==
    \/ PageOpen
    \/ DomContentLoaded
    \/ \E name \in Products : AddToCart(name)
    \/ WindowLoad

SpecCart == InitCart /\ [][NextCart]_vars

----------------------------------------------------------------------------
(* The Identity Resolver alone: resolve applied to drawn identities *)

IdAlphabet == {49, 50, 95, 117}    \* "1", "2", "_", "u"

IdStrings == UNION {[1..n -> IdAlphabet] : n \in 0..MaxIdLen}

InitResolve ==
    /\ authUser = null
    /\ authSubs = 0
    /\ mounted = FALSE
    /\ user = null
    /\ peerId = <<>>
    /\ text = <<>>
    /\ messages = <<>>
    /\ effRan = FALSE
    /\ effDeps = undefined
    /\ effUnsub = {}
    /\ phase = "idle"
    /\ subs = {}
    /\ store = <<>>
    /\ adds = <<>>
    /\ clock = 0
    /\ ev = "init"
    /\ inSelf \in {null} \cup (IdStrings \ {<<>>})
    /\ inPeer \in IdStrings
    /\ outId = unset
    /\ outSwap = unset
    /\ InjIdle
    /\ ShellsIdle
    /\ PairIdle
    /\ CartIdle

\* the memo evaluated for (inSelf, inPeer), and for the same two identities
\* with the roles exchanged: an absent identity is null as the user and ""
\* as the peer id
ResolveCall ==
    /\ outId = unset
    /\ outId' = resolve(inSelf, inPeer)
    /\ outSwap' = resolve(IF inPeer = <<>> THEN null ELSE inPeer,
                          IF inSelf = null THEN <<>> ELSE inSelf)
    /\ UNCHANGED <<inSelf, inPeer>>
    /\ UNCHANGED <<viewVars, injVars, shellVars, pairVars, cartVars>>

NextResolve == ResolveCall

SpecResolve == InitResolve /\ [][NextResolve]_vars

\* uids as the provider issues them (letters and digits); the peer id is
\* whatever was typed
UidStrings ==
    {u \in IdStrings : u # <<>> /\ \A i \in 1..Len(u) : u[i] # 95}

PeerStrings == IdStrings \ {<<>>}

InitInjective ==
    /\ authUser = null
    /\ ViewIdle
    /\ ShellsIdle
    /\ PairIdle
    /\ CartIdle
    /\ inSelf \in UidStrings
    /\ inPeer \in PeerStrings
    /\ inSelf2 \in UidStrings
    /\ inPeer2 \in PeerStrings
    /\ outId = unset
    /\ outSwap = unset
    /\ outId2 = unset

\* the memo evaluated in two views: for (inSelf, inPeer) and for
\* (inSelf2, inPeer2)
InjectiveCall ==
    /\ outId = unset
    /\ outId' = resolve(inSelf, inPeer)
    /\ outId2' = resolve(inSelf2, inPeer2)
    /\ UNCHANGED <<inSelf, inPeer, outSwap, inSelf2, inPeer2>>
    /\ UNCHANGED <<viewVars, shellVars, pairVars, cartVars>>

NextInjective == InjectiveCall

SpecInjective == InitInjective /\ [][NextInjective]_vars

----------------------------------------------------------------------------
(* Properties *)

\* a step that registers an onSnapshot listener
Registers == \E s \in subs' : \A r \in subs : r.id # s.id

\* a step that is a call of sendMessage
SendCalled == ev' = "sendMessage"

\* the quantities a send can touch: the collection, the writes in flight,
\* the input buffer, the rendered list
SendFrame == <<store, adds, text, messages>>

\* the passive effects of the last render have all run
EffectsSettled == phase = "idle" /\ ~EffectsPending

\* C1: in every reachable state the view holds at most one live
\* message-feed subscription.
C1_AtMostOneSubscription == Cardinality(subs) <= 1

\* C1 witness: one subscription is live and has delivered a non-empty
\* snapshot into the list.
C1_Witness ==
    /\ ev = "snapshot"
    /\ Cardinality(subs) = 1
    /\ messages # <<>>

\* C2 as stated: while the view is mounted and the conversation identifier
\* is defined, exactly one subscription is live (never zero, never two).
\* States inside a running flush are not instants of the event loop and are
\* left out.
C2_Original_ExactlyOneWhileDefined ==
    (mounted /\ phase = "idle" /\ chatId # undefined) => Cardinality(subs) = 1

\* C2 amended: never more than one subscription; and once the passive
\* effects of the last render have run, a mounted view with a defined
\* identifier holds exactly one registration, for the query of that
\* identifier.
C2_ExactlyOneOnceEffectsRan ==
    /\ Cardinality(subs) <= 1
    /\ (mounted /\ EffectsSettled /\ chatId # undefined)
           => (Cardinality(subs) = 1 /\ \A s \in subs : s.q = chatId)

\* C2 witness: the peer was switched from one defined identifier to
\* another (the list still shows the previous conversation) and exactly one
\* subscription, for the new identifier, is live.
C2_Witness ==
    /\ mounted
    /\ EffectsSettled
    /\ chatId # undefined
    /\ Cardinality(subs) = 1
    /\ \E i \in 1..Len(messages) : messages[i].chatId # chatId

\* C3: a new onSnapshot registration is made only when no registration is
\* live: the release of the previous one comes strictly first.
C3_ReleaseBeforeSubscribe == [][Registers => subs = {}]_vars

\* C3 witness: the effect has just registered the listener of a new
\* identifier after the cleanup released the one of the conversation whose
\* messages are still in the list.
C3_Witness ==
    /\ ev = "effect"
    /\ effUnsub # {}
    /\ \A s \in subs : s.id \in effUnsub /\ s.q = chatId
    /\ \E i \in 1..Len(messages) : messages[i].chatId # chatId

\* C7 as stated: while the conversation identifier is undefined no
\* subscription is live.
C7_Original_NoSubscriptionWhileUndefined ==
    (mounted /\ phase = "idle" /\ chatId = undefined) => subs = {}

\* C7 amended: once the passive effects of the render that made the
\* identifier undefined have run, no subscription is live; clearing the
\* peer field releases it within the input event itself.
C7_NoSubscriptionOnceEffectsRan ==
    /\ (mounted /\ EffectsSettled /\ chatId = undefined) => subs = {}
    /\ (mounted /\ phase = "idle" /\ peerId = <<>>) => subs = {}

\* C7 witness: the user signed out of a conversation that had rendered
\* messages, the cleanup ran, and nothing is live.
C7_Witness ==
    /\ mounted
    /\ EffectsSettled
    /\ user = null
    /\ peerId # <<>>
    /\ messages # <<>>
    /\ subs = {}

\* C8: a call of sendMessage with empty or whitespace-only text appends no
\* record, starts no write and leaves the input buffer unchanged.
C8_BlankSendIsNoOp ==
    [][(SendCalled /\ Trim(text) = <<>>) => UNCHANGED <<store, adds, text>>]_vars

\* C8 witness: sendMessage just ran for a signed-in user with a resolved
\* peer and whitespace-only text, and nothing is in flight.
C8_Witness ==
    /\ ev = "sendMessage"
    /\ user # null
    /\ chatId # undefined
    /\ text = Sp
    /\ adds = <<>>

\* C9: with no authenticated user a call of sendMessage changes nothing,
\* whatever the text and the peer id.
C9_SignedOutSendIsNoOp ==
    [][(SendCalled /\ user = null) => UNCHANGED SendFrame]_vars

\* C9 witness: sendMessage just ran for a signed-out view that holds a
\* peer id and a non-blank text, and nothing is in flight.
C9_Witness ==
    /\ ev = "sendMessage"
    /\ user = null
    /\ peerId # <<>>
    /\ Trim(text) # <<>>
    /\ adds = <<>>

\* C10: with an authenticated user and non-blank text but no conversation
\* identifier, a call of sendMessage appends nothing and does not clear
\* the input buffer.
C10_UnresolvedSendIsNoOp ==
    [][(SendCalled /\ user # null /\ Trim(text) # <<>> /\ chatId = undefined)
          => UNCHANGED SendFrame]_vars

\* C10 witness: sendMessage just ran for a signed-in user with non-blank
\* text and an empty peer field; the text is still there.
C10_Witness ==
    /\ ev = "sendMessage"
    /\ user # null
    /\ peerId = <<>>
    /\ text = Sp \o Hi
    /\ adds = <<>>

\* the sequence b is the sequence a with one element added at its end
OneAppended(a, b) == Len(b) = Len(a) + 1 /\ SubSeq(b, 1, Len(a)) = a

C12_BufferEmptyAfterAppend ==
    [][(ev' = "addDocResolved" /\ adds # <<>> /\ ~Head(adds).orphan)
          => text' = <<>>]_vars

\* C12 witness: the write of a mounted view has just committed, nothing
\* else is in flight and the buffer is empty.
C12_Witness ==
    /\ ev = "addDocResolved"
    /\ mounted
    /\ adds = <<>>
    /\ store[Len(store)].senderId = U2
    /\ text = <<>>

\* C13: the rendered list of a mounted view changes only in the snapshot
\* callback of the registration its effect holds, which sets it to the
\* result of that registration's query; no send, commit, rejection, peer
\* edit, text edit or auth change touches it.
C13_ListOwnedBySubscription ==
    [][(mounted /\ mounted' /\ messages' # messages)
          => /\ ev' = "snapshot"
             /\ \E s \in subs :
                    /\ s.id \in effUnsub
                    /\ s.dirty /\ ~s.failed
                    /\ messages' = Query(s.q)]_vars

\* C13 witness: the user's own message is committed under the identifier
\* the live subscription listens to, and the list does not show it.
C13_Witness ==
    /\ ev = "addDocResolved"
    /\ mounted
    /\ store[Len(store)].senderId = U2
    /\ store[Len(store)].chatId = chatId
    /\ \E s \in subs : s.q = chatId /\ ~s.failed
    /\ \A k \in 1..Len(messages) : messages[k].id # Len(store)

\* document i has just been committed by a write of this client while a
\* working registration for its conversation is live in a mounted view
SentUnderLiveFeed(i) ==
    /\ ev = "addDocResolved"
    /\ Len(store) = i
    /\ store[i].senderId \in Uids
    /\ mounted
    /\ \E s \in subs : s.q = store[i].chatId /\ ~s.failed

\* document i is in the rendered list, or the registration for its
\* conversation did not stay active (released, failed, view unmounted)
ShownOrFeedGone(i) ==
    /\ Len(store) >= i
    /\ \/ \E k \in 1..Len(messages) : messages[k].id = i
       \/ ~mounted
       \/ ~\E s \in subs : s.q = store[i].chatId /\ ~s.failed

\* C14: if a send succeeds and the subscription for its conversation stays
\* active, and the store delivers the snapshots it owes, the sent message
\* eventually appears in the rendered list.
C14_SentEventuallyRendered ==
    \A i \in 1..MaxDocs : SentUnderLiveFeed(i) ~> ShownOrFeedGone(i)

\* C14 witness: a snapshot has just put the user's own committed message
\* into the list of the conversation it was sent to.
C14_Witness ==
    /\ ev = "snapshot"
    /\ mounted
    /\ \E k \in 1..Len(messages) :
           /\ messages[k].senderId = U2
           /\ messages[k].chatId = chatId
           /\ messages[k].message = Hi

\* the documents of conversation q, by document id
DocsOf(q) == {i \in 1..Len(store) : store[i].chatId = q}

\* list holds each document of conversation q once, with the fields the
\* store holds, and nothing else
HoldsExactly(list, q) ==
    /\ Len(list) = Cardinality(DocsOf(q))
    /\ {list[k].id : k \in 1..Len(list)} = DocsOf(q)
    /\ \A k \in 1..Len(list) :
           /\ list[k].chatId = store[list[k].id].chatId
           /\ list[k].senderId = store[list[k].id].senderId
           /\ list[k].receiverId = store[list[k].id].receiverId
           /\ list[k].message = store[list[k].id].message
           /\ list[k].timestamp = store[list[k].id].timestamp

\* list is in the order the query delivers: ascending timestamp, equal
\* timestamps in document order
InFeedOrder(list) ==
    \A k \in 1..(Len(list) - 1) :
        \/ list[k].timestamp < list[k + 1].timestamp
        \/ list[k].timestamp = list[k + 1].timestamp /\ list[k].id < list[k + 1].id

\* C15: right after a feed update delivered to a mounted view, the rendered
\* list is that snapshot: exactly the records of the registration's
\* conversation, in the snapshot's order, with nothing kept from the list
\* before.
C15_ListIsSnapshot ==
    (ev = "snapshot" /\ mounted) =>
        \E s \in subs :
            /\ ~s.dirty
            /\ HoldsExactly(messages, s.q)
            /\ InFeedOrder(messages)

\* C15 witness: a second snapshot of the same conversation has replaced a
\* list that already held a record; the list holds the two records once
\* each.
C15_Witness ==
    /\ ev = "snapshot"
    /\ mounted
    /\ Len(messages) = 2
    /\ messages[1].id # messages[2].id
    /\ \E s \in subs : s.q = chatId /\ HoldsExactly(messages, s.q)

\* C16: the rendered list is non-decreasing by timestamp.
C16_ListAscending ==
    \A k \in 1..(Len(messages) - 1) :
        messages[k].timestamp <= messages[k + 1].timestamp

\* C16 witness: two records of one conversation were created in descending
\* timestamp order, and the list shows the later-created one first.
C16_Witness ==
    /\ ev = "snapshot"
    /\ mounted
    /\ Len(store) = 2
    /\ store[1].timestamp > store[2].timestamp
    /\ Len(messages) = 2
    /\ messages[1].id = 2
    /\ messages[2].id = 1

\* C17: when addDoc rejects, the composed text is what it was when the
\* rejection arrived, and the store has gained no record.
C17_FailedAppendKeepsText ==
    [][ev' = "addDocRejected" => (text' = text /\ store' = store)]_vars

\* C17 witness: the view is still mounted with the sent text in its buffer
\* after the only append was rejected, and the store is empty.
C17_Witness ==
    /\ ev = "addDocRejected"
    /\ mounted
    /\ user # null
    /\ Trim(text) = Hi
    /\ store = <<>>
    /\ adds = <<>>

\* C18: the appends in flight grow only by a send trigger and then by one;
\* a rejected append leaves the queue of attempts without it and nothing
\* puts it back.
C18_NoRetry ==
    /\ [][Len(adds') > Len(adds) =>
            (ev' = "sendMessage" /\ Len(adds') = Len(adds) + 1)]_vars
    /\ [][ev' = "addDocRejected" => adds' = Tail(adds)]_vars

\* C18 witness: after a rejection nothing is in flight although the view
\* could still send (signed in, conversation resolved, text not blank).
C18_Witness ==
    /\ ev = "addDocRejected"
    /\ adds = <<>>
    /\ mounted
    /\ ~SendRejected
    /\ Len(store) = 1

\* what render() reads: the four state hooks of the view
Rendered == <<user, peerId, text, messages>>

\* C19: the step at which an append fails changes what the mounted view
\* renders, so that the failure can be seen.
C19_FailureSurfaced ==
    [][(ev' = "addDocRejected" /\ mounted) => Rendered' # Rendered]_vars

\* C20: once the view is unmounted and its effect cleanups have run, no
\* registration is held; and no step taken while unmounted changes the
\* list.
C20_UnmountReleases ==
    /\ []((~mounted /\ EffectsSettled) => subs = {})
    /\ [][(~mounted /\ ~mounted') => messages' = messages]_vars

\* C20 witness: the view held a registration and showed a record, was
\* unmounted and cleaned up, and a record written afterwards reached nobody.
C20_Witness ==
    /\ ev = "externalAppend"
    /\ ~mounted
    /\ EffectsSettled
    /\ subs = {}
    /\ messages # <<>>
    /\ Len(store) > Len(messages)

\* C21: while the registration held has failed, no step changes the list;
\* the failed registration stays as it is until the effect cleanup of an
\* identifier change or of an unmount removes it, and a new registration is
\* made only by the effect body, never next to a failed one.
C21_FailedFeedNotRetried ==
    /\ [][(\E s \in subs : s.failed) => messages' = messages]_vars
    /\ [][\A s \in subs : s.failed =>
            \/ \E t \in subs' : t.id = s.id /\ t.q = s.q /\ t.failed
            \/ ev' = "cleanup" /\ (~mounted \/ effDeps # chatId)]_vars
    /\ [][Registers => (ev' = "effect" /\ \A s \in subs : ~s.failed)]_vars

\* C21 witness: the feed of the current conversation has failed, a record
\* of that conversation was committed afterwards, and the list does not
\* show it.
C21_Witness ==
    /\ mounted
    /\ EffectsSettled
    /\ \E s \in subs :
           /\ s.failed
           /\ s.dirty
           /\ s.q = chatId
           /\ messages # <<>>
           /\ Len(Query(s.q)) > Len(messages)

\* a record as send must have built it
WellFormed(d) ==
    /\ d.chatId = resolve(d.senderId, d.receiverId)
    /\ d.chatId # undefined
    /\ d.message # <<>>
    /\ Trim(d.message) = d.message

\* C27: every record handed to addDoc, pending or committed, carries the
\* identifier of its own sender and receiver and a non-empty trimmed body.
C27_RecordsWellFormed ==
    /\ \A i \in 1..Len(store) : WellFormed(store[i])
    /\ \A i \in 1..Len(adds) : WellFormed(adds[i].doc)

\* C27 witness: a record of this view was committed after the peer field
\* was changed and the user signed out while the append was in flight.
C27_Witness ==
    /\ ev = "addDocResolved"
    /\ mounted
    /\ user = null
    /\ store[Len(store)].senderId \in Uids
    /\ store[Len(store)].receiverId # peerId
    /\ peerId # <<>>

\* C28: a step of the mounted view that changes the identifier leaves the
\* list as it is, and only a snapshot changes the list.
C28_IdentifierChangeKeepsList ==
    /\ [][(mounted /\ mounted' /\ resolve(user', peerId') # chatId)
            => messages' = messages]_vars
    /\ [][(mounted /\ mounted' /\ messages' # messages)
            => ev' = "snapshot"]_vars

\* C28 witness: effects have run and the list still shows a record whose
\* chatId is not the current identifier.
C28_Witness ==
    /\ mounted
    /\ EffectsSettled
    /\ chatId # undefined
    /\ \E k \in 1..Len(messages) : messages[k].chatId # chatId

\* C29: a send whose guard passes while an earlier append is still pending
\* hands one more record to addDoc, with the body the buffer holds.
C29_SendWhilePendingAppends ==
    [][(/\ SendCalled
        /\ user # null
        /\ chatId # undefined
        /\ Trim(text) # <<>>
        /\ adds # <<>>)
       => (/\ Len(adds') = Len(adds) + 1
           /\ adds'[Len(adds')].doc.message = Trim(text))]_vars

\* C29 witness: two appends of this view are pending with the same body,
\* the one the buffer still holds.
C29_Witness ==
    /\ ev = "sendMessage"
    /\ mounted
    /\ Len(adds) = 2
    /\ adds[1].doc.message = Trim(text)
    /\ adds[2].doc.message = Trim(text)
    /\ adds[1].doc.chatId = adds[2].doc.chatId
    /\ ~adds[1].orphan
    /\ ~adds[2].orphan

----------------------------------------------------------------------------
(* Properties of the auth listeners *)

Views == Shells \cup {"messages"}

ViewMounted(v) == IF v = "messages" THEN mounted ELSE pages[v].mounted
ViewEffRan(v) == IF v = "messages" THEN effRan ELSE pages[v].effRan
ViewListeners(v) == IF v = "messages" THEN authSubs ELSE pages[v].listeners
ViewListenersNext(v) == IF v = "messages" THEN authSubs' ELSE pages'[v].listeners
ViewEffRanNext(v) == IF v = "messages" THEN effRan' ELSE pages'[v].effRan

\* C22: each view holds one auth listener from its mount effect to its
\* unmount cleanup and none outside; the number a view holds changes only
\* when its mount effect runs (to one) or its unmount cleanup runs (to
\* none), so no change of peer, text or user registers again.
C22_OneAuthListenerPerView ==
    /\ [](\A v \in Views :
            /\ ViewListeners(v) \in {0, 1}
            /\ (ViewMounted(v) /\ ViewEffRan(v)) => ViewListeners(v) = 1
            /\ (~ViewMounted(v) /\ ~ViewEffRan(v)) => ViewListeners(v) = 0)
    /\ [][\A v \in Views :
            ViewListenersNext(v) # ViewListeners(v) =>
                \/ /\ ViewMounted(v) /\ ~ViewEffRan(v) /\ ViewEffRanNext(v)
                   /\ ViewListenersNext(v) = 1
                \/ /\ ~ViewMounted(v) /\ ViewEffRan(v) /\ ~ViewEffRanNext(v)
                   /\ ViewListenersNext(v) = 0]_vars

\* C22 witness: the three views are mounted, each with its listener, after
\* a sign-in reached all of them and the peer field was typed into.
C22_Witness ==
    /\ ev = "peerEdit"
    /\ \A v \in Views : ViewMounted(v) /\ ViewEffRan(v) /\ ViewListeners(v) = 1
    /\ authUser # null
    /\ user = authUser
    /\ \A v \in Shells : pages[v].user = authUser
    /\ peerId # <<>>
    /\ text # <<>>

----------------------------------------------------------------------------
(* Properties of the two clients *)

\* client c shows the document with id i
ClientShows(c, i) ==
    \E k \in 1..Len(clients[c].messages) : clients[c].messages[k].id = i

\* both lists show every record committed so far
AllShown == \A c \in Clients : \A i \in 1..Len(store) : ClientShows(c, i)

\* C23: the two clients resolve the same identifier; every registration
\* filters on it and every committed record carries it; and whatever has
\* been committed by either, a later instant finds all of it in the
\* rendered lists of both.
C23_SharedConversation ==
    /\ [](/\ ClientChatId(1) = ClientChatId(2)
          /\ ClientChatId(1) # undefined
          /\ \A s \in subs : s.q = ClientChatId(1)
          /\ \A i \in 1..Len(store) : store[i].chatId = ClientChatId(1))
    /\ []<>AllShown

\* C23 witness: each client has sent one message and both lists show both.
C23_Witness ==
    /\ Len(store) = 2
    /\ store[1].senderId # store[2].senderId
    /\ \A c \in Clients : ClientShows(c, 1) /\ ClientShows(c, 2)
    /\ \A c \in Clients : clients[c].text = <<>>

----------------------------------------------------------------------------
(* Properties of the Sorin cart *)

\* quantity of the entries called name in cart c
QtyIn(c, name) ==
    TotalItems(SelectSeq(c, LAMBDA item : item.name = name))

\* quantity saved for name in a localStorage value
StoredQty(j, name) == IF j = null THEN 0 ELSE QtyIn(Parse(j), name)

\* C24: what localStorage holds of a product is never lost: no step, an
\* add-to-cart click between DOMContentLoaded and load included, leaves
\* less of a product saved than was saved before it.
C24_SavedCartSurvives ==
    [][\A name \in Products :
          StoredQty(storage', name) >= StoredQty(storage, name)]_vars

\* one addToCart(name) happened between c and d
AddedOne(c, d, name) ==
    IF \E i \in 1..Len(c) : c[i].name = name
    THEN /\ Len(d) = Len(c)
         /\ \A i \in 1..Len(c) :
                /\ d[i].name = c[i].name
                /\ d[i].quantity =
                       c[i].quantity + (IF c[i].name = name THEN 1 ELSE 0)
    ELSE d = Append(c, [name |-> name, quantity |-> 1])

\* C25: an add of a name already in the cart raises that entry's quantity
\* by one and changes nothing else, an add of a new name appends one entry
\* of quantity one; and no two cart entries share a name.
C25_DuplicateRaisesQuantity ==
    /\ [][ev' = "addToCart" => \E name \in Products : AddedOne(cart, cart', name)]_vars
    /\ [](\A i, k \in 1..Len(cart) : i # k => cart[i].name # cart[k].name)

\* C25 witness: the same product was added twice and is one entry of
\* quantity two, next to another entry.
C25_Witness ==
    /\ ev = "addToCart"
    /\ Len(cart) = 2
    /\ cart[1].quantity = 2
    /\ cart[2].quantity = 1

\* C26: after an add-to-cart and after a load that restored the cart, the
\* counter shows the sum of the quantities and is hidden exactly when the
\* sum is 0.
C26_CounterShowsTotal ==
    (ev = "addToCart" \/ (ev = "load" /\ storage # null)) =>
        /\ counter.written
        /\ counter.text = QtyIn(cart, "coat") + QtyIn(cart, "dress")
                              + QtyIn(cart, "scarf")
        /\ counter.shown = (counter.text # 0)

\* C26 witness: a cart of three items in two entries was restored from
\* localStorage on load and the counter shows 3.
C26_Witness ==
    /\ ev = "load"
    /\ storage # null
    /\ Len(cart) = 2
    /\ counter.written
    /\ counter.text = 3
    /\ counter.shown

----------------------------------------------------------------------------
(* Properties of resolve *)

\* a <= b in code-unit order, by the first position where they differ
LexLeq(a, b) ==
    \E k \in 0..Len(a) :
        /\ k <= Len(b)
        /\ \A i \in 1..k : a[i] = b[i]
        /\ \/ k = Len(a)
           \/ k < Len(b) /\ a[k + 1] < b[k + 1]

\* C4: for non-empty identities A and B, the identifier for self = A,
\* peer = B equals the one for self = B, peer = A.
C4_ResolveSymmetric ==
    (outId # unset /\ inSelf # null /\ inPeer # <<>>) => outId = outSwap

\* C4 witness: resolve was applied to two different identities of which the
\* peer sorts first, so the two calls see the arguments in opposite orders.
C4_Witness ==
    /\ outId # unset
    /\ inSelf = U2
    /\ inPeer = U1
    /\ outId # undefined

\* C5: resolve returns undefined exactly when the user is absent or the
\* peer id is the empty string; otherwise it returns an identifier.
C5_UndefinedIffAbsent ==
    outId # unset =>
        /\ (outId = undefined) <=> (inSelf = null \/ inPeer = <<>>)
        /\ outId # undefined =>
               /\ Len(outId) > 0
               /\ \A i \in 1..Len(outId) : outId[i] \in IdAlphabet

\* C5 witness: resolve returned undefined for a present user and an empty
\* peer id.
C5_Witness ==
    /\ outId = undefined
    /\ inSelf # null
    /\ inPeer = <<>>

\* C6: for non-empty self and peer the identifier is the smaller identity,
\* then "__", then the larger one.
C6_SmallerSeparatorLarger ==
    (outId # unset /\ inSelf # null /\ inPeer # <<>>) =>
        outId = IF LexLeq(inSelf, inPeer)
                THEN inSelf \o <<95, 95>> \o inPeer
                ELSE inPeer \o <<95, 95>> \o inSelf

\* C6 witness: self = "u1", peer = "u2" yields "u1__u2".
C6_Witness ==
    /\ inSelf = U1
    /\ inPeer = U2
    /\ outId = <<117, 49, 95, 95, 117, 50>>

\* C30: two evaluations of resolve that return the same identifier were
\* given the same unordered pair of identities.
C30_ResolveInjective ==
    (outId # unset /\ outId2 # unset /\ outId = outId2) =>
        {inSelf, inPeer} = {inSelf2, inPeer2}

====
